---- MODULE Spec2Model ----
(***************************************************************************)
(* Model of the text-to-video backend (src/main.py): the colour parser     *)
(* hex_to_rgb, the word wrapper wrap_text, the lazy frame generator        *)
(* generate_scrolling_text_frames, the encoder loop render_text_video and  *)
(* the request handler generate_video.                                     *)
(*                                                                         *)
(* Python strings are modelled as sequences of one-character strings, so   *)
(* that strip, lstrip, split and hexadecimal parsing are computed and not  *)
(* assumed.                                                                *)
(***************************************************************************)
EXTENDS Integers, Sequences, FiniteSets, TLC

VARIABLES
    pc,           \* position of the running call
    caller,       \* who called render_text_video: "generate_video" or "direct"
    req,          \* the GenerateRequest / the arguments of render_text_video
    env,          \* the runtime environment: installed libraries, font, disk
    text,         \* generate_video: local text (req.text.strip())
    duration,     \* generate_video: local duration
    bg_rgb,       \* render_text_video: local bg_rgb
    text_rgb,     \* render_text_video: local text_rgb
    writer,       \* "none", "open" or "closed"
    closeCount,   \* number of calls of writer.close()
    appended,     \* frame indices passed to writer.append_data, in call order
    frame,        \* the frame last yielded by the generator (loop variable)
    gen,          \* locals of the generator generate_scrolling_text_frames
    exc,          \* exception in flight: "none", "HTTPException", "Exception"
    fileExists,   \* a file exists at out_path
    removeFailed, \* os.remove(out_path) raised (swallowed by the handler)
    response,     \* HTTP status of the response of generate_video, 0 = none yet
    metaWritten,  \* create_document stored a metadata record
    hexIn,        \* argument of a direct call of hex_to_rgb
    hexOut,       \* its result
    wrapIn,       \* arguments of a direct call of wrap_text
    wrapOut       \* its result

vars == <<pc, caller, req, env, text, duration, bg_rgb, text_rgb, writer,
          closeCount, appended, frame, gen, exc, fileExists, removeFailed,
          response, metaWritten, hexIn, hexOut, wrapIn, wrapOut>>

-----------------------------------------------------------------------------
(* Bounds *)

MaxHexLen == 7      \* longest colour string given to hex_to_rgb directly
MaxLen == 6         \* longest text given to wrap_text directly
MaxRenderLen == 3   \* longest text given to render_text_video directly
MaxGlyph == 2       \* widest glyph of a font, in pixels
MaxWidth == 5       \* largest max_width given to wrap_text directly
MaxAy == 5          \* largest bottom of the reference string "Ay", in pixels
MaxDim == 2         \* largest frame width/height of a direct render call
MaxDur == 2         \* largest duration of a direct render call
MaxFps == 3         \* largest fps of a direct render call
MaxReqLen == 2      \* longest text of a request
DurSpan == 1        \* request durations range over MinDuration..MinDuration+DurSpan
FpsSpan == 1        \* request fps range over MinFps..MinFps+FpsSpan

-----------------------------------------------------------------------------
(* Strings *)

\* the characters str.strip() and str.split() treat as whitespace
Whitespace == {" ", "\t", "\n", "\r"}

SeqsUpTo(S, n) == UNION {[1..k -> S] : k \in 0..n}

RECURSIVE lstrip(_, _)
\* str.lstrip(chars): drop every leading character that is in chars
lstrip(s, chars) ==
    IF s # <<>> /\ Head(s) \in chars THEN lstrip(Tail(s), chars) ELSE s

RECURSIVE rstrip(_, _)
rstrip(s, chars) ==
    IF s # <<>> /\ s[Len(s)] \in chars
    THEN rstrip(SubSeq(s, 1, Len(s) - 1), chars)
    ELSE s

\* str.strip()
strip(s) == rstrip(lstrip(s, Whitespace), Whitespace)

RECURSIVE split_from(_, _, _)
split_from(s, cur, acc) ==
    IF s = <<>>
    THEN (IF cur = <<>> THEN acc ELSE Append(acc, cur))
    ELSE IF Head(s) \in Whitespace
         THEN split_from(Tail(s), <<>>, IF cur = <<>> THEN acc ELSE Append(acc, cur))
         ELSE split_from(Tail(s), Append(cur, Head(s)), acc)

\* str.split(): the maximal runs of non-whitespace characters, in order
split(s) == split_from(s, <<>>, <<>>)

-----------------------------------------------------------------------------
(* hex_to_rgb *)

HexDigitsLower == <<"0","1","2","3","4","5","6","7","8","9","a","b","c","d","e","f">>
HexDigitsUpper == <<"0","1","2","3","4","5","6","7","8","9","A","B","C","D","E","F">>

IsHexDigit(c) ==
    \E i \in 1..16 : HexDigitsLower[i] = c \/ HexDigitsUpper[i] = c

\* value of one hexadecimal digit, upper or lower case
HexVal(c) ==
    (CHOOSE i \in 1..16 : HexDigitsLower[i] = c \/ HexDigitsUpper[i] = c) - 1

int16_decimal(h, i) == 10 * HexVal(h[i]) + HexVal(h[i + 1])

\* int(hex_color[i:i+2], 16) for a slice of two hexadecimal digits
int16(h, i) == 16 * HexVal(h[i]) + HexVal(h[i + 1])

FallbackColour == <<15, 23, 42>>

double_chars_repeat(h) == h \o h

RECURSIVE double_chars(_)
\* ''.join([c*2 for c in hex_color])
double_chars(h) ==
    IF h = <<>> THEN <<>> ELSE <<Head(h), Head(h)>> \o double_chars(Tail(h))

\* the test `lv not in (3, 6)` of hex_to_rgb, negated
valid_length(lv) == lv \in {3, 6}

\* The result is [raised |-> FALSE, rgb |-> the tuple], or raised |-> TRUE
\* when int(.., 16) raises ValueError (some character of the stripped
\* string is not a hexadecimal digit; the alphabets used here hold no sign,
\* blank or underscore, which int() would treat specially).
hex_to_rgb(hex_color) ==
    LET h  == lstrip(hex_color, {"#"})
        lv == Len(h)
    IN  IF ~valid_length(lv)
        THEN [raised |-> FALSE, rgb |-> FallbackColour]
        ELSE LET h6 == IF lv = 3 THEN double_chars(h) ELSE h
             IN  IF \E i \in 1..6 : ~IsHexDigit(h6[i])
                 THEN [raised |-> TRUE, rgb |-> <<>>]
                 ELSE [raised |-> FALSE,
                       rgb |-> <<int16(h6, 1), int16(h6, 3), int16(h6, 5)>>]

-----------------------------------------------------------------------------
(* wrap_text *)

TextAlphabet == {"a", "b", " "}

\* A font is the advance width of each glyph together with the bottom of
\* the bounding box of the reference string "Ay".
Fonts == [glyph : [TextAlphabet -> 1..MaxGlyph], ay : 0..MaxAy]

RECURSIVE textbbox_width(_, _)
\* bbox[2] - bbox[0] of draw.textbbox((0, 0), s, font=font)
textbbox_width(s, font) ==
    IF s = <<>> THEN 0 ELSE font.glyph[Head(s)] + textbbox_width(Tail(s), font)

\* the candidate line `test` and its measured width
candidate(line, w) == strip(line \o <<" ">> \o w)

measure_word_only(line, w, font) == textbbox_width(w, font)

candidate_width(line, w, font) == textbbox_width(candidate(line, w), font)

final_lines_forgot(lines, line) == lines

\* the trailing `if line: lines.append(line)`
final_lines(lines, line) == IF line # <<>> THEN Append(lines, line) ELSE lines

RECURSIVE wrap_loop(_, _, _, _, _)
\* the loop `for w in words` with the locals lines and line
wrap_loop(words, lines, line, font, max_width) ==
    IF words = <<>>
    THEN final_lines(lines, line)
    ELSE LET w == Head(words)
         IN  IF candidate_width(line, w, font) <= max_width \/ line = <<>>
             THEN wrap_loop(Tail(words), lines, candidate(line, w), font, max_width)
             ELSE wrap_loop(Tail(words), Append(lines, line), w, font, max_width)

wrap_text(txt, font, max_width) ==
    wrap_loop(split(txt), <<>>, <<>>, font, max_width)

-----------------------------------------------------------------------------
(* generate_scrolling_text_frames *)

Max(a, b) == IF a >= b THEN a ELSE b

\* int(x) of the non-negative quotient n/d: truncation
int_div(n, d) == n \div d

\* int(n/d) for d > 0: truncation toward zero
trunc_div(n, d) == IF n >= 0 THEN n \div d ELSE -((-n) \div d)

\* int(ay * 1.4). The double 1.4 lies below 14/10, so where ay * 14/10 is
\* a positive integer k the product may round to k or to the double below
\* it, which truncates to k - 1; everywhere else the result is the floor.
line_spacing_outcomes(ay) ==
    LET k == int_div(ay * 14, 10)
    IN  IF (ay * 14) % 10 = 0 /\ k > 0 THEN {k, k - 1} ELSE {k}

total_frames_short(dur, fps) == dur * fps - 1

total_frames_of(dur, fps) == dur * fps

total_text_height_no_extra(nlines, line_spacing, height) ==
    Max(nlines * line_spacing, height)

\* max(len(lines) * line_spacing, height) + height
total_text_height_of(nlines, line_spacing, height) ==
    Max(nlines * line_spacing, height) + height

t_denominator_is_total(total_frames) == IF total_frames > 1 THEN total_frames ELSE 1

\* total_frames - 1 if total_frames > 1 else 1
t_denominator(total_frames) == IF total_frames > 1 THEN total_frames - 1 ELSE 1

\* int(start_y + (end_y - start_y) * t) with t = num/den computed in
\* doubles. t is exact for num = 0 and num = den, and so is the result.
\* Elsewhere, when the exact value is a non-zero integer k, the rounding of
\* t can leave the double just inside k, which truncates to the integer
\* next to k on the side of zero; a value with a fractional part is at
\* least 1/den away from an integer, far more than the rounding error.
current_offset_from_end(start_y, end_y, num, den) ==
    LET n == end_y * den + (start_y - end_y) * num
        k == trunc_div(n, den)
    IN  IF num = 0 \/ num = den \/ n % den # 0 \/ k = 0
        THEN {k}
        ELSE {k, IF k > 0 THEN k - 1 ELSE k + 1}

current_offset_outcomes(start_y, end_y, num, den) ==
    LET n == start_y * den + (end_y - start_y) * num
        k == trunc_div(n, den)
    IN  IF num = 0 \/ num = den \/ n % den # 0 \/ k = 0
        THEN {k}
        ELSE {k, IF k > 0 THEN k - 1 ELSE k + 1}

\* the y of each draw_f.text call: y = current_offset; y += line_spacing
line_ys(current_offset, nlines, line_spacing) ==
    [i \in 1..nlines |-> current_offset + (i - 1) * line_spacing]

NoFrame == [idx |-> -1, t_num |-> 0, t_den |-> 1, offset |-> 0, ys |-> <<>>]

GenNotStarted ==
    [started |-> FALSE, lines |-> <<>>, line_spacing |-> 0, margin_x |-> 0,
     total_text_height |-> 0, total_frames |-> 0, start_y |-> 0, end_y |-> 0,
     frame_idx |-> -1]

\* the locals of the generator when it reaches its loop
gen_locals(txt, width, height, fps, dur, font, line_spacing) ==
    LET margin_x == int_div(width * 8, 100)
        max_text_width == width - 2 * margin_x
        lines == wrap_text(txt, font, max_text_width)
        tth == total_text_height_of(Len(lines), line_spacing, height)
    IN  [started |-> TRUE, lines |-> lines, line_spacing |-> line_spacing,
         margin_x |-> margin_x, total_text_height |-> tth,
         total_frames |-> total_frames_of(dur, fps),
         start_y |-> height, end_y |-> -tth, frame_idx |-> -1]

-----------------------------------------------------------------------------
(* render_text_video *)

\* where control goes when render_text_video returns or raises
AfterRender(e) ==
    IF caller = "generate_video"
    THEN (IF e = "none" THEN "gv_meta" ELSE "gv_except")
    ELSE "done"

\* import imageio
ImportImageio ==
    /\ pc = "rv_import"
    /\ IF env.imageio
       THEN pc' = "rv_colours" /\ exc' = exc
       ELSE exc' = "HTTPException" /\ pc' = AfterRender("HTTPException")
    /\ UNCHANGED <<caller, req, env, text, duration, bg_rgb, text_rgb, writer,
                   closeCount, appended, frame, gen, fileExists, removeFailed,
                   response, metaWritten, hexIn, hexOut, wrapIn, wrapOut>>

\* bg_rgb = hex_to_rgb(background); text_rgb = hex_to_rgb(text_color)
ResolveColours ==
    /\ pc = "rv_colours"
    /\ LET b == hex_to_rgb(req.background)
           c == hex_to_rgb(req.text_color)
       IN  IF b.raised
           THEN /\ exc' = "Exception" /\ pc' = AfterRender("Exception")
                /\ UNCHANGED <<bg_rgb, text_rgb>>
           ELSE IF c.raised
           THEN /\ exc' = "Exception" /\ pc' = AfterRender("Exception")
                /\ bg_rgb' = b.rgb /\ UNCHANGED text_rgb
           ELSE /\ bg_rgb' = b.rgb /\ text_rgb' = c.rgb
                /\ pc' = "rv_open" /\ exc' = exc
    /\ UNCHANGED <<caller, req, env, text, duration, writer,
                   closeCount, appended, frame, gen, fileExists, removeFailed,
                   response, metaWritten, hexIn, hexOut, wrapIn, wrapOut>>

\* writer = imageio.get_writer(out_path, ...). Whether the library creates
\* the file at out_path already when it opens it is the library's choice.
OpenWriter ==
    /\ pc = "rv_open"
    /\ \E created \in BOOLEAN : fileExists' = (fileExists \/ created)
    /\ \/ /\ writer' = "open" /\ pc' = "rv_loop" /\ exc' = exc
       \/ /\ exc' = "Exception" /\ pc' = AfterRender("Exception")
          /\ UNCHANGED writer
    /\ UNCHANGED <<caller, req, env, text, duration, bg_rgb, text_rgb,
                   closeCount, appended, frame, gen, removeFailed,
                   response, metaWritten, hexIn, hexOut, wrapIn, wrapOut>>

\* the generator runs from its current position to its next yield, to its
\* end, or to an exception
YieldOrStop(g, idx) ==
    IF idx < g.total_frames
    THEN /\ \E off \in current_offset_outcomes(g.start_y, g.end_y, idx,
                                               t_denominator(g.total_frames)) :
                frame' = [idx |-> idx, t_num |-> idx,
                          t_den |-> t_denominator(g.total_frames),
                          offset |-> off,
                          ys |-> line_ys(off, Len(g.lines), g.line_spacing)]
         /\ gen' = [g EXCEPT !.frame_idx = idx]
         /\ pc' = "rv_append" /\ exc' = exc
    ELSE /\ gen' = [g EXCEPT !.frame_idx = idx]
         /\ pc' = "rv_close" /\ exc' = exc
         /\ UNCHANGED frame

\* one evaluation of `for frame in generate_scrolling_text_frames(...)`
NextFrame ==
    /\ pc = "rv_loop"
    /\ IF ~gen.started /\ ~env.pil
       THEN /\ exc' = "HTTPException" /\ pc' = "rv_close"
            /\ UNCHANGED <<gen, frame>>
       ELSE \/ IF gen.started
               THEN YieldOrStop(gen, gen.frame_idx + 1)
               ELSE \E ls \in line_spacing_outcomes(env.font.ay) :
                       YieldOrStop(gen_locals(text, req.width, req.height,
                                              req.fps, duration, env.font, ls), 0)
            \/ /\ exc' = "Exception" /\ pc' = "rv_close"
               /\ UNCHANGED <<gen, frame>>
    /\ UNCHANGED <<caller, req, env, text, duration, bg_rgb, text_rgb, writer,
                   closeCount, appended, fileExists, removeFailed,
                   response, metaWritten, hexIn, hexOut, wrapIn, wrapOut>>

\* writer.append_data(frame)
AppendData ==
    /\ pc = "rv_append"
    /\ \/ /\ appended' = Append(appended, frame.idx)
          /\ fileExists' = TRUE
          /\ pc' = "rv_loop" /\ exc' = exc
       \/ /\ exc' = "Exception" /\ pc' = "rv_close"
          /\ \E created \in BOOLEAN : fileExists' = (fileExists \/ created)
          /\ UNCHANGED appended
    /\ UNCHANGED <<caller, req, env, text, duration, bg_rgb, text_rgb, writer,
                   closeCount, frame, gen, removeFailed,
                   response, metaWritten, hexIn, hexOut, wrapIn, wrapOut>>

close_skipped_on_error(e) == IF e = "none" THEN "closed" ELSE "open"

\* the finally clause runs writer.close() whatever exception is in flight
writer_after_finally(e) == "closed"

\* finally: writer.close(); an exception of close() replaces the one in flight
CloseWriter ==
    /\ pc = "rv_close"
    /\ writer' = writer_after_finally(exc)
    /\ closeCount' = IF writer' = "closed" THEN closeCount + 1 ELSE closeCount
    /\ \E e \in {exc, "Exception"} :
          /\ (e # exc => writer' = "closed")
          /\ exc' = e
          /\ pc' = AfterRender(e)
    /\ UNCHANGED <<caller, req, env, text, duration, bg_rgb, text_rgb,
                   appended, frame, gen, fileExists, removeFailed,
                   response, metaWritten, hexIn, hexOut, wrapIn, wrapOut>>

-----------------------------------------------------------------------------
(* generate_video *)

MinDuration == 60   \* GenerateRequest.duration: ge=60; max(60, ...) in the handler
MinFps == 10        \* GenerateRequest.fps: ge=10
MinWidth == 320     \* GenerateRequest.width: ge=320
MinHeight == 240    \* GenerateRequest.height: ge=240

strip_nothing(s) == s

\* text = req.text.strip()
stripped_text(s) == strip(s)

\* the handler removes the partial file unless the exception is an
\* HTTPException, which it re-raises as it is
cleans_up(e) == e # "HTTPException"

\* text = req.text.strip(); if not text: raise HTTPException(400);
\* duration = max(60, int(req.duration)); filename; out_path
Validate ==
    /\ pc = "gv_start"
    /\ text' = stripped_text(req.text)
    /\ IF text' = <<>>
       THEN /\ response' = 400 /\ exc' = "HTTPException" /\ pc' = "done"
            /\ UNCHANGED duration
       ELSE /\ duration' = Max(MinDuration, req.duration)
            /\ pc' = "rv_import"
            /\ UNCHANGED <<response, exc>>
    /\ UNCHANGED <<caller, req, env, bg_rgb, text_rgb, writer,
                   closeCount, appended, frame, gen, fileExists, removeFailed,
                   metaWritten, hexIn, hexOut, wrapIn, wrapOut>>

\* except HTTPException: raise
\* except Exception: remove out_path if it exists, raise HTTPException(500)
HandleError ==
    /\ pc = "gv_except"
    /\ IF cleans_up(exc) /\ fileExists
       THEN \/ fileExists' = FALSE /\ UNCHANGED removeFailed
            \/ removeFailed' = TRUE /\ UNCHANGED fileExists
       ELSE UNCHANGED <<fileExists, removeFailed>>
    /\ response' = 500
    /\ exc' = "HTTPException"
    /\ pc' = "done"
    /\ UNCHANGED <<caller, req, env, text, duration, bg_rgb, text_rgb, writer,
                   closeCount, appended, frame, gen,
                   metaWritten, hexIn, hexOut, wrapIn, wrapOut>>

\* create_document("video", meta) with its failure swallowed; return status ok
SaveMetadata ==
    /\ pc = "gv_meta"
    /\ \E stored \in (IF env.db THEN BOOLEAN ELSE {FALSE}) : metaWritten' = stored
    /\ response' = 200
    /\ pc' = "done"
    /\ UNCHANGED <<caller, req, env, text, duration, bg_rgb, text_rgb, writer,
                   closeCount, appended, frame, gen, exc, fileExists,
                   removeFailed, hexIn, hexOut, wrapIn, wrapOut>>

-----------------------------------------------------------------------------
(* Inputs *)

White3 == <<"#", "f", "f", "f">>
Bad3 == <<"b", "a", "d">>
DefaultBackground == <<"#", "0", "f", "1", "7", "2", "a">>
NotHex3 == <<"#", "z", "z", "z">>

ReqAlphabet == {"a", " "}

\* fonts whose glyphs all have the same advance
MonoFonts == {f \in Fonts : \A c \in TextAlphabet : f.glyph[c] = f.glyph["a"]}

NoHexResult == [raised |-> FALSE, rgb |-> <<>>]
NoWrapArgs == [text |-> <<>>, font |-> CHOOSE f \in MonoFonts : TRUE, max_width |-> 0]

\* the state of everything that belongs to no call in progress
Quiet ==
    /\ bg_rgb = <<>> /\ text_rgb = <<>>
    /\ writer = "none" /\ closeCount = 0 /\ appended = <<>>
    /\ frame = NoFrame /\ gen = GenNotStarted /\ exc = "none"
    /\ fileExists = FALSE /\ removeFailed = FALSE
    /\ response = 0 /\ metaWritten = FALSE

NoPureCall ==
    /\ hexIn = <<>> /\ hexOut = NoHexResult
    /\ wrapIn = NoWrapArgs /\ wrapOut = <<>>

\* a request that passed the validation of GenerateRequest, except that the
\* text may be empty, arriving at generate_video
Init ==
    /\ pc = "gv_start" /\ caller = "generate_video"
    /\ req \in [text : SeqsUpTo(ReqAlphabet, MaxReqLen),
                duration : MinDuration..(MinDuration + DurSpan),
                fps : MinFps..(MinFps + FpsSpan),
                width : {MinWidth}, height : {MinHeight},
                background : {White3, DefaultBackground},
                text_color : {Bad3, NotHex3}]
    /\ env \in [imageio : BOOLEAN, pil : BOOLEAN, db : BOOLEAN,
                font : {f \in MonoFonts : f.glyph["a"] = MaxGlyph /\ f.ay = MaxAy}]
    /\ text = <<>> /\ duration = 0
    /\ Quiet /\ NoPureCall

Next ==
    \/ Validate
    \/ ImportImageio
    \/ ResolveColours
    \/ OpenWriter
    \/ NextFrame
    \/ AppendData
    \/ CloseWriter
    \/ HandleError
    \/ SaveMetadata

Spec == Init /\ [][Next]_vars

\* render_text_video called with arbitrary small arguments
InitRender ==
    /\ pc = "rv_import" /\ caller = "direct"
    /\ req \in [text : SeqsUpTo(ReqAlphabet, MaxRenderLen),
                duration : 0..MaxDur, fps : 0..MaxFps,
                width : 1..MaxDim, height : 1..MaxDim,
                background : {White3}, text_color : {Bad3}]
    /\ env \in [imageio : BOOLEAN, pil : BOOLEAN, db : {FALSE}, font : MonoFonts]
    /\ text = req.text /\ duration = req.duration
    /\ Quiet /\ NoPureCall

NextRender ==
    \/ ImportImageio
    \/ ResolveColours
    \/ OpenWriter
    \/ NextFrame
    \/ AppendData
    \/ CloseWriter

SpecRender == InitRender /\ [][NextRender]_vars

-----------------------------------------------------------------------------
(* Direct calls of the pure functions *)

HexAlphabet == {"#", "1", "f", "A", "g"}

PipelineIdle ==
    /\ caller = "direct"
    /\ req = [text |-> <<>>, duration |-> 0, fps |-> 0, width |-> 0,
              height |-> 0, background |-> <<>>, text_color |-> <<>>]
    /\ env = [imageio |-> TRUE, pil |-> TRUE, db |-> FALSE,
              font |-> CHOOSE f \in MonoFonts : TRUE]
    /\ text = <<>> /\ duration = 0
    /\ Quiet

InitHex ==
    /\ pc = "hex_call"
    /\ hexIn \in SeqsUpTo(HexAlphabet, MaxHexLen)
    /\ hexOut = NoHexResult
    /\ wrapIn = NoWrapArgs /\ wrapOut = <<>>
    /\ PipelineIdle

CallHexToRgb ==
    /\ pc = "hex_call"
    /\ hexOut' = hex_to_rgb(hexIn)
    /\ pc' = "hex_ret"
    /\ UNCHANGED <<caller, req, env, text, duration, bg_rgb, text_rgb, writer,
                   closeCount, appended, frame, gen, exc, fileExists,
                   removeFailed, response, metaWritten, hexIn, wrapIn, wrapOut>>

SpecHex == InitHex /\ [][CallHexToRgb]_vars

InitWrap ==
    /\ pc = "wrap_call"
    /\ wrapIn \in [text : SeqsUpTo(TextAlphabet, MaxLen),
                   font : {f \in Fonts : f.ay = 0},
                   max_width : 0..MaxWidth]
    /\ wrapOut = <<>>
    /\ hexIn = <<>> /\ hexOut = NoHexResult
    /\ PipelineIdle

CallWrapText ==
    /\ pc = "wrap_call"
    /\ wrapOut' = wrap_text(wrapIn.text, wrapIn.font, wrapIn.max_width)
    /\ pc' = "wrap_ret"
    /\ UNCHANGED <<caller, req, env, text, duration, bg_rgb, text_rgb, writer,
                   closeCount, appended, frame, gen, exc, fileExists,
                   removeFailed, response, metaWritten, hexIn, hexOut, wrapIn>>

SpecWrap == InitWrap /\ [][CallWrapText]_vars

-----------------------------------------------------------------------------
(* Properties *)

IsBlank(s) == \A i \in 1..Len(s) : s[i] \in Whitespace

\* C1: whenever generate_video ends with an error response (400 or 500) and
\* no removal of the file failed, no file exists at the output path.
C1_NoFileAfterError ==
    (pc = "done" /\ response \in {400, 500} /\ ~removeFailed) => ~fileExists

\* C2: once the writer is open, render_text_video leaves only with the
\* writer closed, closed exactly once; on normal completion the close comes
\* after the last frame was appended; nothing is appended after the close.
C2_ClosedOnceOnEveryExit ==
    /\ [](/\ closeCount <= 1
          /\ (writer # "none" /\ pc \in {"gv_meta", "gv_except", "done"}
                => writer = "closed" /\ closeCount = 1))
    /\ [][/\ (writer = "closed" => appended' = appended)
          /\ (writer = "open" /\ writer' = "closed" /\ exc = "none"
                => Len(appended) = gen.total_frames)]_vars

C2_Witness ==
    /\ pc = "done" /\ response = 500 /\ exc = "HTTPException"
    /\ writer = "closed" /\ closeCount = 1
    /\ Len(appended) > 0 /\ Len(appended) < gen.total_frames

\* C3: a request answered with status ok had exactly duration * fps frames
\* appended, with the indices 0, 1, ..., duration * fps - 1 in this order.
C3_AllFramesInOrder ==
    response = 200 =>
        /\ duration = Max(MinDuration, req.duration)
        /\ Len(appended) = duration * req.fps
        /\ \A i \in 1..Len(appended) : appended[i] = i - 1

C3_Witness ==
    /\ response = 200
    /\ Len(appended) = (MinDuration + DurSpan) * (MinFps + FpsSpan)

\* C4: a request whose text is empty or all whitespace never gets a writer,
\* a frame, a file or a metadata record, and ends with status 400.
C4_BlankTextRejected ==
    IsBlank(req.text) /\ caller = "generate_video" =>
        /\ pc \in {"gv_start", "done"}
        /\ (pc = "done" => response = 400)
        /\ writer = "none" /\ ~gen.started /\ frame = NoFrame
        /\ appended = <<>> /\ ~fileExists /\ ~metaWritten

C4_Witness ==
    /\ pc = "done" /\ response = 400
    /\ req.text # <<>> /\ IsBlank(req.text)
    /\ writer = "none" /\ ~fileExists

RECURSIVE WordsOfLines(_)
WordsOfLines(lines) ==
    IF lines = <<>> THEN <<>> ELSE split(Head(lines)) \o WordsOfLines(Tail(lines))

\* C5: the words of the lines wrap_text returns, line after line, are the
\* words of the text; an empty text gives no line; no line is empty.
C5_WordsPreserved ==
    pc = "wrap_ret" =>
        /\ WordsOfLines(wrapOut) = split(wrapIn.text)
        /\ (wrapIn.text = <<>> => wrapOut = <<>>)
        /\ \A i \in 1..Len(wrapOut) : wrapOut[i] # <<>>

C5_Witness ==
    /\ pc = "wrap_ret"
    /\ Len(split(wrapIn.text)) = 3
    /\ Len(wrapOut) = 2
    /\ Len(split(wrapOut[2])) = 2

\* C6: a line wrap_text returns is at most max_width wide unless it is one
\* word that is wider than max_width; a word wider than max_width shares
\* its line with no other word.
C6_LinesFit ==
    pc = "wrap_ret" =>
        \A i \in 1..Len(wrapOut) :
            LET ws == split(wrapOut[i])
            IN  /\ \/ textbbox_width(wrapOut[i], wrapIn.font) <= wrapIn.max_width
                   \/ /\ Len(ws) = 1
                      /\ textbbox_width(ws[1], wrapIn.font) > wrapIn.max_width
                /\ \A j \in 1..Len(ws) :
                      textbbox_width(ws[j], wrapIn.font) > wrapIn.max_width
                          => Len(ws) = 1

C6_Witness ==
    /\ pc = "wrap_ret"
    /\ \E i \in 1..Len(wrapOut) :
          /\ Len(split(wrapOut[i])) = 1
          /\ textbbox_width(wrapOut[i], wrapIn.font) > wrapIn.max_width
    /\ \E i \in 1..Len(wrapOut) :
          /\ Len(split(wrapOut[i])) = 2
          /\ textbbox_width(wrapOut[i], wrapIn.font) = wrapIn.max_width

\* render_text_video has computed bg_rgb and text_rgb of this request
ColoursResolved ==
    /\ ~IsBlank(req.text) /\ env.imageio
    /\ pc \notin {"gv_start", "rv_import", "rv_colours"}

\* C7 as stated: background "#fff" resolves to (255,255,255) and text
\* colour "bad" to the fallback (15,23,42).
C7_BadIsFallback ==
    req.background = White3 /\ req.text_color = Bad3 /\ ColoursResolved =>
        bg_rgb = <<255, 255, 255>> /\ text_rgb = <<15, 23, 42>>

\* C7 amended: background "#fff" resolves to (255,255,255) and text colour
\* "bad", three hexadecimal digits, to (187,170,221).
C7_BadIsThreeDigitHex ==
    req.background = White3 /\ req.text_color = Bad3 /\ ColoursResolved =>
        bg_rgb = <<255, 255, 255>> /\ text_rgb = <<187, 170, 221>>

C7_Witness ==
    /\ req.background = White3 /\ req.text_color = Bad3
    /\ pc = "rv_open" /\ text_rgb # <<>>

\* hex_color without its leading '#' characters
AfterHashes(s) ==
    LET n == Cardinality({i \in 1..Len(s) : \A j \in 1..i : s[j] = "#"})
    IN  SubSeq(s, n + 1, Len(s))

\* C8: with h the argument after its leading '#'s: a length other than 3
\* and 6 gives exactly (15,23,42); six hexadecimal digits give the three
\* byte values in 0..255; three hexadecimal digits give what the six
\* digits with each digit doubled give.
C8_HexToRgb ==
    pc = "hex_ret" =>
        LET h == AfterHashes(hexIn)
            wellFormed == \A i \in 1..Len(h) : IsHexDigit(h[i])
        IN  /\ Len(h) \notin {3, 6} =>
                  hexOut = [raised |-> FALSE, rgb |-> <<15, 23, 42>>]
            /\ Len(h) \in {3, 6} /\ wellFormed =>
                  /\ ~hexOut.raised /\ Len(hexOut.rgb) = 3
                  /\ \A k \in 1..3 : hexOut.rgb[k] \in 0..255
            /\ Len(h) = 6 /\ wellFormed =>
                  \A k \in 1..3 :
                      hexOut.rgb[k] = 16 * HexVal(h[2 * k - 1]) + HexVal(h[2 * k])
            /\ Len(h) = 3 /\ wellFormed =>
                  /\ \A k \in 1..3 : hexOut.rgb[k] = 17 * HexVal(h[k])
                  /\ hexOut = hex_to_rgb(<<h[1], h[1], h[2], h[2], h[3], h[3]>>)

C8_Witness ==
    /\ pc = "hex_ret"
    /\ hexIn = <<"#", "#", "1", "f", "A">>
    /\ hexOut.rgb = <<17, 255, 170>>

\* C9: with more than one frame, frame 0 is drawn at offset height with
\* every line at or below the bottom edge, and the last frame at offset
\* end_y = -(max(lines * line_spacing, height) + height) with every line
\* ending at or above the top edge.
C9_ScrollEnds ==
    pc = "rv_append" /\ gen.total_frames > 1 =>
        /\ gen.total_text_height =
              Max(Len(gen.lines) * gen.line_spacing, req.height) + req.height
        /\ gen.start_y = req.height
        /\ gen.end_y = -gen.total_text_height
        /\ Len(frame.ys) = Len(gen.lines)
        /\ frame.idx = 0 =>
              /\ frame.offset = req.height
              /\ \A i \in 1..Len(frame.ys) : frame.ys[i] >= req.height
        /\ frame.idx = gen.total_frames - 1 =>
              /\ frame.offset = gen.end_y
              /\ \A i \in 1..Len(frame.ys) : frame.ys[i] + gen.line_spacing <= 0

C9_Witness ==
    /\ pc = "rv_append" /\ gen.total_frames > 2
    /\ frame.idx = gen.total_frames - 1
    /\ Len(gen.lines) = 2 /\ gen.line_spacing > 0
    /\ Len(gen.lines) * gen.line_spacing > req.height
    /\ frame.ys[2] + gen.line_spacing = -req.height

\* C10 as stated: with total_frames <= 1 one frame is produced, with t = 1,
\* drawn at offset end_y.
C10_SingleFrameAtEnd ==
    /\ (pc = "rv_append" /\ gen.total_frames <= 1
          => frame.t_num = frame.t_den /\ frame.offset = gen.end_y)
    /\ (pc = "done" /\ exc = "none" /\ gen.started /\ gen.total_frames <= 1
          => Len(appended) = 1)

\* C10 amended: with total_frames = 1 one frame is produced, with t = 0/1,
\* drawn at offset start_y = height; with total_frames <= 0 none is.
C10_SingleFrameAtStart ==
    /\ (pc = "rv_append" /\ gen.total_frames <= 1
          => /\ gen.total_frames = 1 /\ frame.idx = 0
             /\ frame.t_num = 0 /\ frame.t_den = 1
             /\ frame.offset = gen.start_y /\ frame.offset = req.height)
    /\ (pc = "done" /\ exc = "none" /\ gen.started /\ gen.total_frames <= 1
          => appended = IF gen.total_frames = 1 THEN <<0>> ELSE <<>>)

C10_Witness ==
    /\ pc = "done" /\ exc = "none" /\ gen.total_frames = 1
    /\ appended = <<0>> /\ frame.offset = req.height /\ frame.offset # gen.end_y

====
